---- MODULE Spec2Model ----
(***************************************************************************)
(* Model of src/expense_tracker.py: the expense ledger kept by             *)
(* ExpenseTracker, its JSON persistence, the ExpenseAnalyzer anomaly       *)
(* detector, the BudgetManager and the menu loop of main().                *)
(*                                                                         *)
(* An amount or limit is held as its number of tenths of the currency      *)
(* unit, the decimal the user typed; the program holds the double nearest  *)
(* to it.  Sums, the 80% test and a z-score with a non-zero standard       *)
(* deviation are computed exactly: on the whole-number amounts typed in    *)
(* Spec, SpecFood and SpecBudget the doubles of the source are exact too.  *)
(* The mean of a column, which decides a z-score with a zero standard      *)
(* deviation, is computed in double arithmetic as pandas computes it.      *)
(*                                                                         *)
(* A timestamp is [month, us]: month counts calendar months from January   *)
(* of year 0, us is the part of the instant below one millisecond.         *)
(***************************************************************************)
EXTENDS Integers, Sequences, FiniteSets, TLC

VARIABLES
  data,       \* ExpenseTracker.data: the in-memory ledger, a sequence of records
  analyzer,   \* ExpenseTracker.analyzer.data: the frame the analyzer was built on
  budgets,    \* BudgetManager.budgets: dict category -> monthly limit
  file,       \* expenses_data.json: [exists, rows]
  now,        \* the wall clock, in calendar months
  pc,         \* main(): "menu" while the loop waits for a choice, "exit" after 7
  out         \* what the last menu operation printed, returned or exported

vars == <<data, analyzer, budgets, file, now, pc, out>>

----------------------------------------------------------------------------
(* Bounds of the model *)

MaxLedger == 2      \* Spec: no expense is added to a ledger of this many records
MaxMonth == 1       \* Spec: the clock stops advancing at this month
MaxScenario == 3    \* SpecFood: no expense is added to a ledger of this many records
MaxRows == 2        \* SpecBudget: longest ledger drawn
MaxSample == 3      \* SpecAnomaly: longest ledger drawn

(* Program constants *)

MonthsPerYear == 12      \* '%Y-%m' splits a date into year and month
WarnTenths == 8          \* limit * 0.8, in tenths
DefaultThreshold == 2    \* detect_anomalies(threshold = 2.0)

----------------------------------------------------------------------------
(* Input alphabets *)

Categories == {"Food", "Rent"}
Descriptions == {""}
SubMs == {0, 1}

\* What the user may type at "Enter amount: " / "Enter monthly budget limit: ",
\* as sequences of characters.
AmountTokens == { <<"1","0">>, <<"a","b","c">> }
LimitTokens == { <<"2","0">>, <<"-","5">>, <<>> }

NoFile == [exists |-> FALSE, rows |-> <<>>]

----------------------------------------------------------------------------
(* float() and int(): the subset of Python's grammar over digits, '-',     *)
(* '.' and letters: an optional sign, at least one digit and, for float(), *)
(* at most one digit after a point.  Any other token raises ValueError.    *)
(* float() gives the number of tenths.                                     *)

Digits == {"0","1","2","3","4","5","6","7","8","9"}

DigitVal(c) ==
  CASE c = "0" -> 0 [] c = "1" -> 1 [] c = "2" -> 2 [] c = "3" -> 3
    [] c = "4" -> 4 [] c = "5" -> 5 [] c = "6" -> 6 [] c = "7" -> 7
    [] c = "8" -> 8 [] c = "9" -> 9

RECURSIVE DigitsVal(_)
DigitsVal(s) ==
  IF s = <<>> THEN 0
  ELSE 10 * DigitsVal(SubSeq(s, 1, Len(s) - 1)) + DigitVal(s[Len(s)])

AllDigits(s) == Len(s) > 0 /\ \A i \in 1..Len(s) : s[i] \in Digits

\* int(tok)
ParseInt(tok) ==
  IF AllDigits(tok) THEN [ok |-> TRUE, val |-> DigitsVal(tok)]
  ELSE IF Len(tok) > 1 /\ tok[1] = "-" /\ AllDigits(Tail(tok))
       THEN [ok |-> TRUE, val |-> 0 - DigitsVal(Tail(tok))]
       ELSE [ok |-> FALSE, val |-> 0]

\* float(tok) of a token without sign
ParseUnsigned(tok) ==
  IF AllDigits(tok) THEN [ok |-> TRUE, val |-> 10 * DigitsVal(tok)]
  ELSE IF /\ Len(tok) > 2
          /\ tok[Len(tok) - 1] = "."
          /\ tok[Len(tok)] \in Digits
          /\ AllDigits(SubSeq(tok, 1, Len(tok) - 2))
       THEN [ok |-> TRUE,
             val |-> 10 * DigitsVal(SubSeq(tok, 1, Len(tok) - 2))
                     + DigitVal(tok[Len(tok)])]
       ELSE [ok |-> FALSE, val |-> 0]

\* Variant: an empty answer read as zero, float(input() or 0).
ParseFloat_EmptyIsZero(tok) ==
  IF tok = <<>> THEN [ok |-> TRUE, val |-> 0]
  ELSE IF Len(tok) > 1 /\ tok[1] = "-"
       THEN [ok |-> ParseUnsigned(Tail(tok)).ok,
             val |-> 0 - ParseUnsigned(Tail(tok)).val]
       ELSE ParseUnsigned(tok)

\* float(tok)
ParseFloat(tok) ==
  IF Len(tok) > 1 /\ tok[1] = "-"
  THEN [ok |-> ParseUnsigned(Tail(tok)).ok,
        val |-> 0 - ParseUnsigned(Tail(tok)).val]
  ELSE ParseUnsigned(tok)

----------------------------------------------------------------------------
(* IEEE 754 doubles, as far as the mean of a column needs them.  A natural *)
(* number is a sequence of limbs in base 2^24, least significant first,    *)
(* without leading zero limbs.  A double is [s, m, e]: sign s in           *)
(* {-1, 0, 1}, significand m of exactly 53 bits, value s * m * 2^e (zero   *)
(* is [0, <<>>, 0]).  Rounding is to nearest, ties to even.  Subnormals,   *)
(* infinities and overflow do not arise on the amounts of the model.       *)

SignificandBits == 53
LimbBits == 24
Base == 2^LimbBits

RECURSIVE ToNat(_)
ToNat(n) == IF n = 0 THEN <<>> ELSE <<n % Base>> \o ToNat(n \div Base)

RECURSIVE Trim(_)
Trim(a) ==
  IF a = <<>> THEN <<>>
  ELSE IF a[Len(a)] = 0 THEN Trim(SubSeq(a, 1, Len(a) - 1)) ELSE a

Limb(a, i) == IF 1 <= i /\ i <= Len(a) THEN a[i] ELSE 0

RECURSIVE NatAddFrom(_, _, _, _)
\* the limbs of a + b from limb i up, with a carry coming in
NatAddFrom(a, b, i, carry) ==
  IF i > Len(a) /\ i > Len(b) THEN (IF carry = 0 THEN <<>> ELSE <<carry>>)
  ELSE <<(Limb(a, i) + Limb(b, i) + carry) % Base>>
       \o NatAddFrom(a, b, i + 1, (Limb(a, i) + Limb(b, i) + carry) \div Base)

NatAdd(a, b) == NatAddFrom(a, b, 1, 0)

RECURSIVE NatSubFrom(_, _, _, _)
\* the limbs of a - b (a >= b) from limb i up, with a borrow coming in
NatSubFrom(a, b, i, borrow) ==
  IF i > Len(a) THEN <<>>
  ELSE <<(Limb(a, i) - Limb(b, i) - borrow) % Base>>
       \o NatSubFrom(a, b, i + 1,
                     IF Limb(a, i) - Limb(b, i) - borrow < 0 THEN 1 ELSE 0)

NatSub(a, b) == Trim(NatSubFrom(a, b, 1, 0))

RECURSIVE NatCmpFrom(_, _, _)
\* compares two numbers of the same length from limb i down
NatCmpFrom(a, b, i) ==
  IF i = 0 THEN 0
  ELSE IF a[i] > b[i] THEN 1
  ELSE IF a[i] < b[i] THEN -1
  ELSE NatCmpFrom(a, b, i - 1)

NatCmp(a, b) ==
  IF Len(a) > Len(b) THEN 1
  ELSE IF Len(a) < Len(b) THEN -1
  ELSE NatCmpFrom(a, b, Len(a))

\* a * 2^k
ShiftLeft(a, k) ==
  LET q == k \div LimbBits
      b == k % LimbBits
      lo == 2^(LimbBits - b)
  IN  IF a = <<>> THEN <<>>
      ELSE Trim([j \in 1..q |-> 0]
                \o [j \in 1..(Len(a) + 1) |->
                      (Limb(a, j) % lo) * 2^b + Limb(a, j - 1) \div lo])

\* a \div 2^k
ShiftRight(a, k) ==
  LET q == k \div LimbBits
      b == k % LimbBits
  IN  IF Len(a) <= q THEN <<>>
      ELSE Trim([j \in 1..(Len(a) - q) |->
                   Limb(a, j + q) \div 2^b
                   + (Limb(a, j + q + 1) % 2^b) * 2^(LimbBits - b)])

\* the number of bits of a
BitLen(a) ==
  IF a = <<>> THEN 0
  ELSE (Len(a) - 1) * LimbBits
       + (CHOOSE k \in 1..LimbBits : 2^(k - 1) <= a[Len(a)] /\ a[Len(a)] < 2^k)

RECURSIVE DivSmallFrom(_, _, _, _, _)
\* long division of a by n from limb i down, with remainder r carried in and
\* the quotient limbs found so far in q
DivSmallFrom(a, n, i, r, q) ==
  IF i = 0 THEN [q |-> Trim(q), r |-> r]
  ELSE DivSmallFrom(a, n, i - 1, (r * Base + a[i]) % n,
                    <<(r * Base + a[i]) \div n>> \o q)

DivSmall(a, n) == DivSmallFrom(a, n, Len(a), 0, <<>>)

FZero == [s |-> 0, m |-> <<>>, e |-> 0]

\* s * r * 2^e for a rounded significand r of 53 or (after a carry) 54 bits
Renormalised(s, r, e) ==
  IF BitLen(r) > SignificandBits
  THEN [s |-> s, m |-> ShiftRight(r, 1), e |-> e + 1]
  ELSE [s |-> s, m |-> r, e |-> e]

\* s * M * 2^e with the lowest `drop' bits of M rounded away: kept is M
\* without them, half is M without all but the first of them (the guard bit)
RoundAway(s, M, e, sticky, drop, kept, half) ==
  Renormalised(s,
               IF /\ half[1] % 2 = 1
                  /\ \/ sticky
                     \/ ShiftLeft(half, drop - 1) # M
                     \/ kept[1] % 2 = 1
               THEN NatAdd(kept, <<1>>) ELSE kept,
               e + drop)

\* s * M * 2^e for an M of L bits
RoundBits(s, M, e, sticky, L) ==
  IF L = 0 THEN FZero
  ELSE IF L <= SignificandBits
  THEN [s |-> s, m |-> ShiftLeft(M, SignificandBits - L),
        e |-> e - (SignificandBits - L)]
  ELSE RoundAway(s, M, e, sticky, L - SignificandBits,
                 ShiftRight(M, L - SignificandBits),
                 ShiftRight(M, L - SignificandBits - 1))

\* s * M * 2^e (+ something below one unit of M when sticky), rounded
RoundToDouble(s, M, e, sticky) == RoundBits(s, M, e, sticky, BitLen(M))

FNeg(x) == [x EXCEPT !.s = 0 - x.s]

\* x + y for non-zero x = x.s * X * 2^e0 and y = y.s * Y * 2^e0, c comparing
\* X with Y
FAddAligned(x, y, e0, X, Y, c) ==
  IF x.s = y.s THEN RoundToDouble(x.s, NatAdd(X, Y), e0, FALSE)
  ELSE IF c = 0 THEN FZero
  ELSE IF c > 0 THEN RoundToDouble(x.s, NatSub(X, Y), e0, FALSE)
  ELSE RoundToDouble(y.s, NatSub(Y, X), e0, FALSE)

FAddAt(x, y, e0, X, Y) == FAddAligned(x, y, e0, X, Y, NatCmp(X, Y))

FAddFrom(x, y, e0) ==
  FAddAt(x, y, e0, ShiftLeft(x.m, x.e - e0), ShiftLeft(y.m, y.e - e0))

\* x + y
FAdd(x, y) ==
  IF x.s = 0 THEN y
  ELSE IF y.s = 0 THEN x
  ELSE FAddFrom(x, y, IF x.e < y.e THEN x.e ELSE y.e)

\* x - y
FSub(x, y) == FAdd(x, FNeg(y))

\* s * (d.q + d.r / n) * 2^e
FQuotient(s, d, e) == RoundToDouble(s, d.q, e, d.r # 0)

\* x / n for an integer n > 0
FDivInt(x, n) ==
  IF x.s = 0 THEN FZero
  ELSE FQuotient(x.s, DivSmall(ShiftLeft(x.m, 8), n), x.e - 8)

\* the double of an integer
FromInt(k) ==
  IF k = 0 THEN FZero
  ELSE IF k > 0 THEN RoundToDouble(1, ToNat(k), 0, FALSE)
  ELSE RoundToDouble(-1, ToNat(0 - k), 0, FALSE)

\* An amount is held as its number of tenths, the decimal the user typed;
\* the frame holds the double nearest to it.
AsFloat(tenths) == FDivInt(FromInt(tenths), 10)

RECURSIVE KahanFrom(_, _, _, _)
\* compensation = t - sumx - y; sumx = t; on to the next value
KahanNext(vals, i, sumx, y, t) ==
  KahanFrom(vals, i + 1, t, FSub(FSub(t, sumx), y))

\* t = sumx + y
KahanAdd(vals, i, sumx, y) == KahanNext(vals, i, sumx, y, FAdd(sumx, y))

\* group_mean's loop from value i on: y = val - compensation; t = sumx + y;
\* compensation = t - sumx - y; sumx = t
KahanFrom(vals, i, sumx, compensation) ==
  IF i > Len(vals) THEN sumx
  ELSE KahanAdd(vals, i, sumx, FSub(vals[i], compensation))

\* groupby(...).mean() of one group: sumx / count
group_mean(vals) == FDivInt(KahanFrom(vals, 1, FZero, FZero), Len(vals))

----------------------------------------------------------------------------
(* JSONDataStorage *)

\* DataFrame.to_json(orient='records'): dates are written as epoch
\* milliseconds (date_unit 'ms'), so the part below one millisecond is dropped.
ToJsonRow(r) ==
  [date |-> r.date.month, category |-> r.category,
   amount |-> r.amount, description |-> r.description]

to_json(df) == [i \in 1..Len(df) |-> ToJsonRow(df[i])]

\* pd.read_json(orient='records'): the 'date' column is converted back to
\* timestamps.
FromJsonRow(j) ==
  [date |-> [month |-> j.date, us |-> 0], category |-> j.category,
   amount |-> j.amount, description |-> j.description]

read_json(rows) == [i \in 1..Len(rows) |-> FromJsonRow(rows[i])]

save_data(df) == [exists |-> TRUE, rows |-> to_json(df)]

load_data(f) == IF f.exists THEN read_json(f.rows) ELSE <<>>

\* DataFrame.to_csv(index=False): timestamps are written in full.
to_csv(df) == [exists |-> TRUE, rows |-> df]

----------------------------------------------------------------------------
(* Helpers over a ledger *)

\* '%Y-%m' of a timestamp: the (year, month) pair.
strftime_Ym(month) == <<month \div MonthsPerYear, (month % MonthsPerYear) + 1>>

RECURSIVE SumAmounts(_)
SumAmounts(df) ==
  IF df = <<>> THEN 0 ELSE df[1].amount + SumAmounts(Tail(df))

OfCategory(df, c) == SelectSeq(df, LAMBDA r : r.category = c)

----------------------------------------------------------------------------
(* BudgetManager *)

\* Variant: self.budgets = {category: monthly_limit}
set_budget_Replace(bud, category, monthly_limit) ==
  [c \in {category} |-> monthly_limit]

\* self.budgets[category] = monthly_limit
set_budget(bud, category, monthly_limit) ==
  [c \in (DOMAIN bud) \cup {category} |->
     IF c = category THEN monthly_limit ELSE bud[c]]

\* expenses[expenses['date'].dt.strftime('%Y-%m') == current_month]
monthly_expenses(expenses, clock) ==
  SelectSeq(expenses, LAMBDA r : strftime_Ym(r.date.month) = strftime_Ym(clock))

\* monthly_expenses[monthly_expenses['category'] == category]['amount'].sum()
total_spent(expenses, clock, category) ==
  SumAmounts(OfCategory(monthly_expenses(expenses, clock), category))

\* total_spent > limit
IsViolation(spent, limit) == spent > limit

\* total_spent > limit * 0.8, after the first test failed
IsWarning(spent, limit) == 10 * spent > WarnTenths * limit

\* f"{(total_spent/limit)*100:.1f}": the percentage in tenths of a percent,
\* rounded to nearest (only evaluated with 0 < spent <= limit; the amounts
\* and limits drawn below give no tie).
Percent1f(spent, limit) == (2000 * spent + limit) \div (2 * limit)

BudgetEntry(spent, limit) ==
  IF IsViolation(spent, limit)
  THEN [limit |-> limit, spent |-> spent, overspend |-> spent - limit]
  ELSE [limit |-> limit, spent |-> spent, warning |-> Percent1f(spent, limit)]

check_budget_violations(bud, expenses, clock) ==
  LET reported == { c \in DOMAIN bud :
                      \/ IsViolation(total_spent(expenses, clock, c), bud[c])
                      \/ IsWarning(total_spent(expenses, clock, c), bud[c]) }
  IN  [c \in reported |-> BudgetEntry(total_spent(expenses, clock, c), bud[c])]

----------------------------------------------------------------------------
(* ExpenseAnalyzer *)

\* ExpenseAnalyzer(data): keeps the frame it is given (the same object as
\* the tracker's) and converts its date column with pd.to_datetime, which
\* leaves timestamps as they are.
ExpenseAnalyzer(df) == df

Sq(x) == x * x

Abs(x) == IF x < 0 THEN 0 - x ELSE x

RECURSIVE GCD(_, _)
GCD(a, b) == IF b = 0 THEN a ELSE GCD(b, a % b)

RECURSIVE DevGCD(_, _, _)
\* the greatest common divisor of the deviations n * amount - S of the rows
\* (0 when they are all zero)
DevGCD(df, n, S) ==
  IF df = <<>> THEN 0
  ELSE GCD(Abs(n * df[1].amount - S), DevGCD(Tail(df), n, S))

RECURSIVE SumSqDev(_, _, _, _)
\* sum over the rows of ((n * amount - S) / g)^2
SumSqDev(df, n, S, g) ==
  IF df = <<>> THEN 0
  ELSE Sq((n * df[1].amount - S) \div g) + SumSqDev(Tail(df), n, S, g)

\* amount - category_means[category] for a category of n rows that all hold
\* `amount': the sign (-1, 0, 1) of the double difference.
MeanDeviation(amount, n) ==
  FSub(AsFloat(amount), group_mean([i \in 1..n |-> AsFloat(amount)])).s

\* MeanDeviation, computed once for the amounts and category sizes the
\* specifications below reach: the triples <<amount, n, sign>>.
MeanDeviationTable ==
  { <<p[1], p[2], MeanDeviation(p[1], p[2])>> :
      p \in {1, 100, 120, 10000} \X (2..(MaxLedger + MaxScenario + MaxSample)) }

\* Variant: z_score = amount - category_means[category], the division by
\* the standard deviation left out.
z_score_Unscaled(df, category, amount) ==
  LET rows == OfCategory(df, category)
      n == Len(rows)
      d == n * amount - SumAmounts(rows)
  IN  [kind |-> "finite", num |-> Sq(d), den |-> Sq(10 * n)]

\* (amount - category_means[category]) / category_stds[category]
\* With n rows in the category, S their sum and SS = sum (n*x - S)^2:
\*   amount - mean = (n*amount - S) / n,  std = sqrt(SS / (n - 1)) / n (ddof = 1)
\* so z^2 = (n*amount - S)^2 * (n - 1) / SS; both deviations are first divided
\* by their common divisor g.  std is NaN for n = 1.  std is 0.0 exactly when
\* the amounts are all equal (group_var adds (val - mean) * (val - oldmean),
\* which is zero at every row); the numerator amount - mean is then taken in
\* double arithmetic, and the division by 0.0 gives NaN for 0.0 / 0.0 and an
\* infinity otherwise, as numpy's float64 does.
z_score(df, category, amount) ==
  LET rows == OfCategory(df, category)
      n == Len(rows)
      S == SumAmounts(rows)
      g == DevGCD(rows, n, S)
  IN  IF n < 2 THEN [kind |-> "nan"]
      ELSE IF g = 0
           THEN LET known == { e \in MeanDeviationTable :
                                       e[1] = amount /\ e[2] = n }
                    d == IF known # {} THEN (CHOOSE e \in known : TRUE)[3]
                         ELSE MeanDeviation(amount, n)
                IN  IF d = 0 THEN [kind |-> "nan"]
                    ELSE [kind |-> "inf", sign |-> d]
           ELSE [kind |-> "finite",
                 num |-> Sq((n * amount - S) \div g) * (n - 1),
                 den |-> SumSqDev(rows, n, S, g)]

\* abs(z_score) > threshold: False for NaN
AbsExceeds(z, threshold) ==
  CASE z.kind = "nan" -> FALSE
    [] z.kind = "inf" -> TRUE
    [] OTHER -> threshold < 0 \/ z.num > Sq(threshold) * z.den

RECURSIVE AnomalyRows(_, _, _)
\* the loop over self.data.iterrows(), from row i on
AnomalyRows(df, i, threshold) ==
  IF i > Len(df) THEN <<>>
  ELSE LET z == z_score(df, df[i].category, df[i].amount)
       IN  IF AbsExceeds(z, threshold)
           THEN <<[row |-> i, date |-> df[i].date, category |-> df[i].category,
                   amount |-> df[i].amount, description |-> df[i].description,
                   z_score |-> z]>> \o AnomalyRows(df, i + 1, threshold)
           ELSE AnomalyRows(df, i + 1, threshold)

detect_anomalies(df, threshold) == AnomalyRows(df, 1, threshold)

\* groupby('category')['amount'].agg(['sum', 'count', 'mean']).round(2): the
\* mean column is the quotient of the other two and is not kept apart.
get_category_summary(df) ==
  [c \in {df[i].category : i \in 1..Len(df)} |->
     [sum |-> SumAmounts(OfCategory(df, c)), count |-> Len(OfCategory(df, c))]]

\* groupby(month)['amount'].agg(['sum', 'count'])
get_monthly_summary(df) ==
  [m \in {strftime_Ym(df[i].date.month) : i \in 1..Len(df)} |->
     LET rows == SelectSeq(df, LAMBDA r : strftime_Ym(r.date.month) = m)
     IN  [sum |-> SumAmounts(rows), count |-> Len(rows)]]

----------------------------------------------------------------------------
(* ExpenseTracker and main() *)

Quiet == [op |-> "start", typed |-> <<>>, msg |-> "menu"]

\* ExpenseTracker.__init__ on a ledger file f
Constructed(f) ==
  /\ file = f
  /\ data = load_data(f)
  /\ analyzer = ExpenseAnalyzer(load_data(f))
  /\ budgets = <<>>
  /\ pc = "menu"
  /\ out = Quiet

\* A ledger file an earlier run left behind: nothing, or one saved record.
EarlierRecords ==
  [date : [month : {0}, us : SubMs], category : Categories,
   amount : {100}, description : Descriptions]

InitialFiles == {NoFile} \cup { save_data(<<r>>) : r \in EarlierRecords }

Init ==
  /\ now = 0
  /\ \E f \in InitialFiles : Constructed(f)

\* Variant: pd.concat([new_expense, self.data], ignore_index=True)
pd_concat_Front(df, new_expense) == <<new_expense>> \o df

\* pd.concat([self.data, new_expense], ignore_index=True)
pd_concat(df, new_expense) == Append(df, new_expense)

\* Variant: add_expense without the "Refresh analyzer" line.
AddExpense_NoRefresh(category, tok, description, us) ==
  /\ pc = "menu"
  /\ LET amount == ParseFloat(tok)
         new_expense == [date |-> [month |-> now, us |-> us], category |-> category,
                         amount |-> amount.val, description |-> description]
         concat == pd_concat(data, new_expense)
     IN  IF amount.ok
         THEN /\ data' = concat
              /\ file' = save_data(concat)
              /\ analyzer' = analyzer
              /\ out' = [op |-> "add_expense", typed |-> tok, msg |-> "added",
                         alerts |-> check_budget_violations(budgets, concat, now)]
         ELSE /\ out' = [op |-> "add_expense", typed |-> tok, msg |-> "invalid"]
              /\ UNCHANGED <<data, file, analyzer>>
  /\ UNCHANGED <<budgets, now, pc>>

\* choice "1": float(input()) then tracker.add_expense(category, amount, description)
AddExpense(category, tok, description, us) ==
  /\ pc = "menu"
  /\ LET amount == ParseFloat(tok)
         new_expense == [date |-> [month |-> now, us |-> us], category |-> category,
                         amount |-> amount.val, description |-> description]
         concat == pd_concat(data, new_expense)
     IN  IF amount.ok
         THEN /\ data' = concat
              /\ file' = save_data(concat)
              /\ analyzer' = ExpenseAnalyzer(concat)
              /\ out' = [op |-> "add_expense", typed |-> tok, msg |-> "added",
                         alerts |-> check_budget_violations(budgets, concat, now)]
         ELSE /\ out' = [op |-> "add_expense", typed |-> tok, msg |-> "invalid"]
              /\ UNCHANGED <<data, file, analyzer>>
  /\ UNCHANGED <<budgets, now, pc>>

\* choice "2": tracker.view_summary(period)
ViewSummary(period) ==
  /\ pc = "menu"
  /\ out' = [op |-> "view_summary", typed |-> <<>>, msg |-> period,
             summary |-> IF period = "month" THEN get_monthly_summary(analyzer)
                         ELSE get_category_summary(analyzer),
             total |-> SumAmounts(data)]
  /\ UNCHANGED <<data, analyzer, budgets, file, now, pc>>

\* choice "3": tracker.set_budget()
SetBudget(category, tok) ==
  /\ pc = "menu"
  /\ LET limit == ParseFloat(tok)
     IN  IF limit.ok
         THEN /\ budgets' = set_budget(budgets, category, limit.val)
              /\ out' = [op |-> "set_budget", typed |-> tok, msg |-> "budget set"]
         ELSE /\ out' = [op |-> "set_budget", typed |-> tok, msg |-> "invalid"]
              /\ UNCHANGED budgets
  /\ UNCHANGED <<data, analyzer, file, now, pc>>

\* choice "4": tracker.view_anomalies()
ViewAnomalies ==
  /\ pc = "menu"
  /\ out' = [op |-> "view_anomalies", typed |-> <<>>, msg |-> "anomalies",
             anomalies |-> detect_anomalies(analyzer, DefaultThreshold)]
  /\ UNCHANGED <<data, analyzer, budgets, file, now, pc>>

\* choice "5": tracker.visualize_data(); the plots change nothing.  Option 3
\* reads the window with int(input() or "7"): a non-numeric answer raises a
\* ValueError that nothing catches, and the process ends.
VisualizeData(choice, tok) ==
  /\ pc = "menu"
  /\ LET window == IF tok = <<>> THEN ParseInt(<<"7">>) ELSE ParseInt(tok)
     IN  IF choice = "3" /\ ~window.ok
         THEN /\ pc' = "crashed"
              /\ out' = [op |-> "visualize_data", typed |-> tok, msg |-> "ValueError"]
         ELSE /\ pc' = pc
              /\ out' = [op |-> "visualize_data", typed |-> <<>>, msg |-> "plot"]
  /\ UNCHANGED <<data, analyzer, budgets, file, now>>

\* any other choice
InvalidChoice ==
  /\ pc = "menu"
  /\ out' = [op |-> "none", typed |-> <<>>, msg |-> "invalid choice"]
  /\ UNCHANGED <<data, analyzer, budgets, file, now, pc>>

\* choice "6": tracker.export_report(filename).  The program never reads the
\* exported file; its content is kept as this operation's output.
ExportReport ==
  /\ pc = "menu"
  /\ out' = [op |-> "export_report", typed |-> <<>>, msg |-> "exported",
             csv |-> to_csv(data)]
  /\ UNCHANGED <<data, analyzer, budgets, file, now, pc>>

\* choice "7"
Exit ==
  /\ pc = "menu"
  /\ pc' = "exit"
  /\ out' = [op |-> "exit", typed |-> <<>>, msg |-> "goodbye"]
  /\ UNCHANGED <<data, analyzer, budgets, file, now>>

\* The calendar moves on to the next month while the loop waits.
Tick ==
  /\ pc = "menu"
  /\ now < MaxMonth
  /\ now' = now + 1
  /\ UNCHANGED <<data, analyzer, budgets, file, pc, out>>

DoAddExpense ==
  /\ Len(data) < MaxLedger
  /\ \E category \in Categories, tok \in AmountTokens,
        description \in Descriptions, us \in SubMs :
          AddExpense(category, tok, description, us)

DoViewSummary == \E period \in {"month", "category"} : ViewSummary(period)

DoSetBudget == \E category \in Categories, tok \in LimitTokens : SetBudget(category, tok)

DoVisualizeData ==
  \E choice \in {"1", "3"}, tok \in {<<>>, <<"a","b","c">>} : VisualizeData(choice, tok)

Next ==
  \/ DoAddExpense
  \/ DoViewSummary
  \/ DoSetBudget
  \/ ViewAnomalies
  \/ DoVisualizeData
  \/ ExportReport
  \/ Exit
  \/ InvalidChoice
  \/ Tick

Spec == Init /\ [][Next]_vars

----------------------------------------------------------------------------
(* SpecFood: a fresh tracker (no ledger file) to which only Food expenses  *)
(* of 10, 12 and 1000 are added, and whose anomalies are viewed.           *)

FoodTokens == { <<"1","0">>, <<"1","2">>, <<"1","0","0","0">> }

InitFood ==
  /\ now = 0
  /\ Constructed(NoFile)

FoodAddExpense ==
  /\ Len(data) < MaxScenario
  /\ \E tok \in FoodTokens, us \in SubMs : AddExpense("Food", tok, "", us)

NextFood ==
  \/ FoodAddExpense
  \/ ViewAnomalies

SpecFood == InitFood /\ [][NextFood]_vars

----------------------------------------------------------------------------
(* SpecBudget: check_budgets on a tracker whose ledger, budgets and clock  *)
(* are drawn from bounded sets.                                            *)

SeqsUpTo(S, n) == UNION { [1..k -> S] : k \in 0..n }

Dicts(K, V) == UNION { [D -> V] : D \in SUBSET K }

\* month 0 and month 12 are the same month of successive years
BudgetRecords ==
  [date : [month : {0, 12, 13}, us : {0}], category : Categories,
   amount : {8000, 500, 2010, -900}, description : Descriptions]

BudgetLimits == {10000, -1000}

InitBudget ==
  /\ data \in SeqsUpTo(BudgetRecords, MaxRows)
  /\ analyzer = ExpenseAnalyzer(data)
  /\ budgets \in Dicts(Categories, BudgetLimits)
  /\ now \in {12, 13}
  /\ file = NoFile
  /\ pc = "menu"
  /\ out = Quiet

\* ExpenseTracker.check_budgets()
CheckBudgets ==
  /\ pc = "menu"
  /\ out' = [op |-> "check_budgets", typed |-> <<>>, msg |-> "alerts",
             alerts |-> check_budget_violations(budgets, data, now)]
  /\ UNCHANGED <<data, analyzer, budgets, file, now, pc>>

NextBudget == CheckBudgets

SpecBudget == InitBudget /\ [][NextBudget]_vars

----------------------------------------------------------------------------
(* SpecAnomaly: detect_anomalies on an analyzer whose ledger (amounts 0.1,  *)
(* 10 and 12) and threshold are drawn from bounded sets.                   *)

SampleRecords ==
  [date : [month : {0}, us : {0}], category : Categories,
   amount : {1, 100, 120}, description : Descriptions]

Thresholds == {-1, 0, 1, 2}

InitAnomaly ==
  /\ data \in SeqsUpTo(SampleRecords, MaxSample)
  /\ analyzer = ExpenseAnalyzer(data)
  /\ budgets = <<>>
  /\ now = 0
  /\ file = NoFile
  /\ pc = "menu"
  /\ out = Quiet

\* analyzer.detect_anomalies(threshold)
DetectAnomalies(threshold) ==
  /\ pc = "menu"
  /\ out' = [op |-> "detect_anomalies", typed |-> <<>>, msg |-> "anomalies",
             threshold |-> threshold,
             anomalies |-> detect_anomalies(analyzer, threshold)]
  /\ UNCHANGED <<data, analyzer, budgets, file, now, pc>>

NextAnomaly == \E threshold \in Thresholds : DetectAnomalies(threshold)

SpecAnomaly == InitAnomaly /\ [][NextAnomaly]_vars

----------------------------------------------------------------------------
(* The claims.  What a claim says of amounts, months and typed input is    *)
(* written here from the claim's words, not with the operators above.      *)

\* The amounts of a ledger, in order
Amounts(df) == [i \in 1..Len(df) |-> df[i].amount]

\* sum of category c's amounts over the records of df dated in calendar month m
RECURSIVE SpendIn(_, _, _)
SpendIn(df, m, c) ==
  IF df = <<>> THEN 0
  ELSE (IF df[1].category = c /\ df[1].date.month = m THEN df[1].amount ELSE 0)
       + SpendIn(Tail(df), m, c)

\* The records of df dated in calendar month m
InMonth(df, m) == SelectSeq(df, LAMBDA r : r.date.month = m)

\* The numbers among the tokens the model types, with their values in tenths
Typed(tok) ==
  CASE tok = <<"1","0">> -> 100
    [] tok = <<"1","2">> -> 120
    [] tok = <<"2","0">> -> 200
    [] tok = <<"-","5">> -> -50
    [] tok = <<"1","0","0","0">> -> 10000

NumericTokens ==
  { <<"1","0">>, <<"1","2">>, <<"2","0">>, <<"-","5">>, <<"1","0","0","0">> }

Checked == out.op = "check_budgets"

\* C1: check_budget_violations reports for each budgeted category c, with
\* spent the sum of c's amounts in the current month: a Violation entry
\* {limit, spent, overspend = spent - limit} iff spent > limit; a Warning
\* entry iff 0.8*limit < spent <= limit; no entry iff spent <= 0.8*limit; no
\* entry carries both 'overspend' and 'warning'.
C1_Entry(c) ==
  LET limit == budgets[c]
      spent == SpendIn(data, now, c)
      has == c \in DOMAIN out.alerts
      fields == IF has THEN DOMAIN out.alerts[c] ELSE {}
  IN  /\ (has /\ "overspend" \in fields) <=> (spent > limit)
      /\ (has /\ "warning" \in fields) <=> (10 * spent > 8 * limit /\ spent <= limit)
      /\ (~has) <=> (10 * spent <= 8 * limit)
      /\ ~({"overspend", "warning"} \subseteq fields)
      /\ has => /\ out.alerts[c].limit = limit
                /\ out.alerts[c].spent = spent
                /\ "overspend" \in fields => out.alerts[c].overspend = spent - limit

C1_Classification ==
  Checked => \A c \in DOMAIN budgets : C1_Entry(c)

\* The classification of C1 restricted to the limits that are not negative.
C1_NonNegativeLimits ==
  Checked => \A c \in DOMAIN budgets : budgets[c] >= 0 => C1_Entry(c)

\* C1's three cases with limit 1000: 850 warns at 85.0%, 1001 overspends by
\* 1, exactly 800 gives no entry.
C1_Examples ==
  /\ check_budget_violations([c \in {"Food"} |-> 10000],
        <<[date |-> [month |-> 0, us |-> 0], category |-> "Food", amount |-> 8500,
           description |-> ""]>>, 0)
       = [c \in {"Food"} |-> [limit |-> 10000, spent |-> 8500, warning |-> 850]]
  /\ check_budget_violations([c \in {"Food"} |-> 10000],
        <<[date |-> [month |-> 0, us |-> 0], category |-> "Food", amount |-> 10010,
           description |-> ""]>>, 0)
       = [c \in {"Food"} |-> [limit |-> 10000, spent |-> 10010, overspend |-> 10]]
  /\ check_budget_violations([c \in {"Food"} |-> 10000],
        <<[date |-> [month |-> 0, us |-> 0], category |-> "Food", amount |-> 8000,
           description |-> ""]>>, 0)
       = <<>>

FoodScenario ==
  /\ out.op = "view_anomalies"
  /\ Amounts(data) = <<100, 10000, 120>>
  /\ \A i \in 1..Len(data) : data[i].category = "Food"

\* C2 as claimed: after adding {Food,10}, {Food,1000}, {Food,12} to an empty
\* ledger, detect_anomalies with threshold 2.0 returns exactly the
\* {Food,1000} record.
C2_FlagsThousand ==
  FoodScenario =>
    /\ Len(out.anomalies) = 1
    /\ out.anomalies[1].row = 2
    /\ out.anomalies[1].amount = 10000

\* C2 as amended: in that scenario detect_anomalies with threshold 2.0
\* returns no record at all (the z-score of {Food,1000} is 2/sqrt(3)).
C2_FlagsNothing ==
  FoodScenario => out.anomalies = <<>>

C2_Witness ==
  FoodScenario /\ analyzer = data /\ Len(data) = 3

Detected == out.op = "detect_anomalies"

CategoryAmounts(df, c) == { df[i].amount : i \in { j \in 1..Len(df) : df[j].category = c } }

CategoryCount(df, c) == Cardinality({ j \in 1..Len(df) : df[j].category = c })

\* C3: for every ledger and threshold, detect_anomalies returns no record
\* whose category has exactly one record, and no record whose category's
\* amounts are all identical.
C3_NeverFlagsDegenerate ==
  Detected =>
    \A k \in 1..Len(out.anomalies) :
      /\ CategoryCount(data, out.anomalies[k].category) # 1
      /\ Cardinality(CategoryAmounts(data, out.anomalies[k].category)) > 1

\* C4: check_budget_violations counts only the records of the current
\* calendar month: its result is that of the current-month records alone,
\* and a category whose only spending lies outside the current month gets
\* no entry.
C4_CurrentMonthOnly ==
  Checked =>
    /\ out.alerts = check_budget_violations(budgets, InMonth(data, now), now)
    /\ \A c \in DOMAIN budgets :
         (CategoryCount(data, c) > 0 /\ CategoryCount(InMonth(data, now), c) = 0)
            => c \notin DOMAIN out.alerts

\* The first half of C4 alone: the result is that of the current-month records.
C4_SameAsCurrentMonthRecords ==
  Checked => out.alerts = check_budget_violations(budgets, InMonth(data, now), now)

\* C5: whatever limit set_budget stored, a budgeted category whose spend in
\* the current month is zero has no entry in the result of
\* check_budget_violations.
C5_ZeroSpendNoEntry ==
  (out.op = "add_expense" /\ out.msg = "added") =>
    \A c \in DOMAIN budgets :
      SpendIn(data, now, c) = 0 => c \notin DOMAIN out.alerts

Added == out'.op = "add_expense" /\ out'.msg = "added" /\ DoAddExpense

\* C6: the ledger only changes by add_expense appending one record at the
\* end: the earlier records keep their positions and fields, each completed
\* add_expense makes the ledger one longer, and set_budget, view_summary,
\* view_anomalies and export_report leave it as it is.
C6_AppendOnly ==
  /\ [][ data' # data =>
           /\ Added
           /\ Len(data') = Len(data) + 1
           /\ \A i \in 1..Len(data) : data'[i] = data[i] ]_vars
  /\ [][ Added =>
           /\ Len(data') = Len(data) + 1
           /\ data'[Len(data')].date.month = now
           /\ data'[Len(data')].amount = Typed(out'.typed) ]_vars
  /\ [][ data' # data =>
           ~(DoSetBudget \/ DoViewSummary \/ ViewAnomalies \/ ExportReport) ]_vars

\* a ledger of two different records, exported after the second was added
C6_Witness ==
  /\ Len(data) = 2
  /\ data[1] # data[2]
  /\ out.op = "export_report"
  /\ out.csv = to_csv(data)

\* C7: whenever the menu loop waits for a choice, the stored ledger (a
\* missing file counting as empty) is the in-memory ledger, so that a
\* tracker constructed then loads exactly the records present.
C7_StoredEqualsMemory ==
  pc = "menu" => load_data(file) = data

\* C8: a non-numeric amount in Add Expense or limit in Set Budget changes
\* nothing (ledger, ledger file, analyzer, budgets) and the loop goes on.
C8_InvalidInputChangesNothing ==
  /\ [][ \A category \in Categories, tok \in AmountTokens \ NumericTokens,
            description \in Descriptions, us \in SubMs :
              (out'.typed = tok /\ AddExpense(category, tok, description, us)) =>
                /\ UNCHANGED <<data, file, analyzer, budgets>>
                /\ out'.msg = "invalid"
                /\ pc' = "menu" ]_vars
  /\ [][ \A category \in Categories, tok \in LimitTokens \ NumericTokens :
            (out'.typed = tok /\ SetBudget(category, tok)) =>
                /\ UNCHANGED <<data, file, analyzer, budgets>>
                /\ out'.msg = "invalid"
                /\ pc' = "menu" ]_vars

\* a rejected limit, typed when there were a ledger and budgets to lose
C8_Witness ==
  /\ out.op = "set_budget"
  /\ out.msg = "invalid"
  /\ out.typed \notin NumericTokens
  /\ pc = "menu"
  /\ Len(data) > 0
  /\ DOMAIN budgets # {}

\* C9: the budgets change only by set_budget(c, l), which makes c's limit l
\* and leaves every other category's limit, and the ledger, as they were.
C9_BudgetsOnlyBySetBudget ==
  /\ [][ budgets' # budgets =>
           \E c \in Categories, tok \in LimitTokens \cap NumericTokens :
              SetBudget(c, tok) ]_vars
  /\ [][ \A c \in Categories, tok \in LimitTokens \cap NumericTokens :
           (out'.typed = tok /\ SetBudget(c, tok)) =>
             /\ DOMAIN budgets' = (DOMAIN budgets) \cup {c}
             /\ budgets'[c] = Typed(tok)
             /\ \A d \in (DOMAIN budgets) \ {c} : budgets'[d] = budgets[d]
             /\ data' = data ]_vars

\* both categories budgeted, with different limits, next to a ledger
C9_Witness ==
  /\ DOMAIN budgets = Categories
  /\ budgets["Food"] = 200
  /\ budgets["Rent"] = -50
  /\ Len(data) > 0

\* C10: the analyzer always works on the tracker's current ledger, and the
\* budget check at the end of add_expense counts the record just added.
C10_AnalyzerNeverStale ==
  /\ [](analyzer = data)
  /\ [][ Added =>
           /\ out'.alerts = check_budget_violations(budgets', data', now')
           /\ \A c \in DOMAIN out'.alerts :
                out'.alerts[c].spent = SpendIn(data', now', c) ]_vars

\* an expense whose own amount brought its category into the alerts
C10_Witness ==
  /\ out.op = "add_expense"
  /\ out.msg = "added"
  /\ analyzer = data
  /\ Len(data) > 0
  /\ LET c == data[Len(data)].category
     IN  /\ c \in DOMAIN out.alerts
         /\ c \notin DOMAIN check_budget_violations(
                            budgets, SubSeq(data, 1, Len(data) - 1), now)

====
